---- MODULE Spec2Model ----
(***************************************************************************)
(* Model of the flight price tracker: the POST /api/search-flights handler *)
(* (src/api/index.js), the GET /api/run-price-check handler and the        *)
(* fetchAndStoreTickets function it calls (src/dist/index.js), and the     *)
(* ticket table they write through Prisma.                                 *)
(*                                                                         *)
(* The repository holds fetchAndStoreTickets twice: as the compiled        *)
(* src/dist/index.js, which the server imports, and as the TypeScript      *)
(* source that `npx tsc` of the build script compiles over it (the text    *)
(* after the script in src/vercel-build.sh).  The two differ; env.rebuilt  *)
(* says which one the process has loaded.  A third, src/index.ts, is the    *)
(* script run from the command line, in a process of its own, against the  *)
(* same table.                                                             *)
(*                                                                         *)
(* JavaScript strings that the code inspects character by character        *)
(* (flight numbers, ticket links) are sequences of one-character strings.  *)
(* A value that may be absent (undefined / null) is a sequence of length   *)
(* 0 (absent) or 1 (present).  A required body field that is missing or    *)
(* empty is the empty string: both are falsy for the code's `!x` test.     *)
(*                                                                         *)
(* One action is one synchronous stretch of a handler, from one await to   *)
(* the next: Node runs such a stretch without interleaving.                *)
(***************************************************************************)
EXTENDS Integers, Sequences, FiniteSets, TLC

VARIABLES env, proc, handles, store, req, started

vars == <<env, proc, handles, store, req, started>>

\* Request slots: the requests the server may be handling at the same time.
Procs == {1, 2}

\* Longest ticket list the upstream answers with.
MaxTickets == 2

\* Number of requests started in one behaviour.
MaxRuns == 2

----------------------------------------------------------------------------
\* Strings

Unknown == <<"U", "n", "k", "n", "o", "w", "n">>

http == <<"h", "t", "t", "p">>

searchPrefix ==
  <<"h", "t", "t", "p", "s", ":", "/", "/", "w", "w", "w", ".", "a", "v", "i",
    "a", "s", "a", "l", "e", "s", ".", "c", "o", "m", "/", "s", "e", "a", "r",
    "c", "h">>

\* String.prototype.substring(a, b) for 0 <= a <= b.
substring(s, a, b) ==
  SubSeq(s, a + 1, IF b < Len(s) THEN b ELSE Len(s))

\* String.prototype.startsWith(pre).
startsWith(s, pre) ==
  /\ Len(s) >= Len(pre)
  /\ SubSeq(s, 1, Len(pre)) = pre

\* String.prototype.toLowerCase().
Upper ==
  <<"A", "B", "C", "D", "E", "F", "G", "H", "I", "J", "K", "L", "M", "N", "O",
    "P", "Q", "R", "S", "T", "U", "V", "W", "X", "Y", "Z">>

Lower ==
  <<"a", "b", "c", "d", "e", "f", "g", "h", "i", "j", "k", "l", "m", "n", "o",
    "p", "q", "r", "s", "t", "u", "v", "w", "x", "y", "z">>

toLowerCase(s) ==
  [i \in 1..Len(s) |->
     IF \E k \in 1..26 : Upper[k] = s[i]
     THEN Lower[CHOOSE k \in 1..26 : Upper[k] = s[i]]
     ELSE s[i]]

\* Values of a JSON body's optional fields, each with the string String()
\* makes of it; undefined is a field the body does not name.
undefined ==
  [type |-> "undefined", s |-> <<"u", "n", "d", "e", "f", "i", "n", "e", "d">>]

jsNull == [type |-> "null", s |-> <<"n", "u", "l", "l">>]

jsNumber(s) == [type |-> "number", s |-> s]

jsString(s) == [type |-> "string", s |-> s]

\* A destructuring default: it stands for undefined only.
withDefault(v, d) == IF v.type = "undefined" THEN d ELSE v

DecimalDigits == <<"0", "1", "2", "3", "4", "5", "6", "7", "8", "9">>

isDigit(c) == \E k \in 1..10 : DecimalDigits[k] = c

digitOf(c) == (CHOOSE k \in 1..10 : DecimalDigits[k] = c) - 1

RECURSIVE skipSpaces(_, _)
skipSpaces(s, i) ==
  IF i <= Len(s) /\ s[i] = " " THEN skipSpaces(s, i + 1) ELSE i

RECURSIVE readDigits(_, _, _, _)
readDigits(s, i, acc, seen) ==
  IF i <= Len(s) /\ isDigit(s[i])
  THEN readDigits(s, i + 1, acc * 10 + digitOf(s[i]), TRUE)
  ELSE [nan |-> ~seen, n |-> acc]

\* parseInt(v) without a radix: String(v), leading blanks skipped, a sign,
\* then the longest run of decimal digits; NaN when there is none.  (No
\* input here begins with 0x, which parseInt would read as hexadecimal.)
parseInt(v) ==
  LET s == v.s
      i == skipSpaces(s, 1)
      signed == i <= Len(s) /\ s[i] \in {"-", "+"}
      m == readDigits(s, IF signed THEN i + 1 ELSE i, 0, FALSE)
  IN [nan |-> m.nan, n |-> IF signed /\ s[i] = "-" THEN 0 - m.n ELSE m.n]

----------------------------------------------------------------------------
\* Upstream data

legOut == [flight_number |-> <<"A", "C", "3", "0", "1">>,
           origin |-> "YUL", destination |-> "YVR"]

legRet == [flight_number |-> <<"W", "S", "7", "1", "0">>,
           origin |-> "YVR", destination |-> "YUL"]

segOut == [flight_legs |-> <<(<<legOut>>)>>]

segRet == [flight_legs |-> <<(<<legRet>>)>>]

\* A round trip with both segments; its link is a path.
ticketA ==
  [departure_at |-> "2025-07-25T08:00", return_at |-> "2025-08-07T18:00",
   value |-> 300, trip_duration |-> 11,
   ticket_link |-> <<"/", "Y", "U", "L">>,
   segments |-> <<(<<segOut, segRet>>)>>]

\* The same flights as ticketA at another price.
ticketA2 == [ticketA EXCEPT !.value = 350]

\* One-way-shaped data: the second segment is absent; its link is absolute.
ticketOneWay ==
  [ticketA EXCEPT !.segments = <<(<<segOut>>)>>,
                  !.ticket_link = <<"h", "t", "t", "p", ":", "/", "/", "a">>]

\* A ticket without a segments array; its link is the empty string.
ticketNoSegments ==
  [ticketA EXCEPT !.segments = <<>>, !.ticket_link = <<>>]

Tickets == {ticketA, ticketA2, ticketOneWay, ticketNoSegments}

TicketLists == UNION {[1..n -> Tickets] : n \in 0..MaxTickets}

\* What axios.post gives: a rejection (network error, non-2xx), or a response
\* with `levels` of the envelope present: 0 no body, 1 a body without data,
\* 2 data without prices_round_trip, 3 the ticket list.
envelopeOf(resp) ==
  IF resp.rejected THEN "rejected"
  ELSE IF resp.levels = 0 THEN "no body"
  ELSE IF resp.levels = 1 THEN "no data"
  ELSE IF resp.levels = 2 THEN "no prices_round_trip"
  ELSE "tickets"

Responses ==
  {[rejected |-> TRUE, levels |-> 0, tickets |-> <<>>]}
  \cup {[rejected |-> FALSE, levels |-> l, tickets |-> <<>>] : l \in 0..2}
  \cup {[rejected |-> FALSE, levels |-> 3, tickets |-> ts] : ts \in TicketLists}

----------------------------------------------------------------------------
\* Leg extraction and the duplicate key

\* firstLeg without the optional chaining: ticket.segments[i].flight_legs[0].
firstLeg_strict(ticket, i) ==
  IF ticket.segments = <<>> \/ Len(ticket.segments[1]) < i + 1
     \/ ticket.segments[1][i + 1].flight_legs = <<>>
  THEN [threw |-> TRUE, leg |-> <<>>]
  ELSE LET legs == ticket.segments[1][i + 1].flight_legs[1] IN
       [threw |-> FALSE, leg |-> IF legs = <<>> THEN <<>> ELSE <<legs[1]>>]

\* ticket.segments[i]?.flight_legs[0]: the leg when there is one, nothing when
\* the segment or the leg is absent, and a TypeError when ticket.segments or
\* the segment's flight_legs is not there to be indexed.
firstLeg(ticket, i) ==
  IF ticket.segments = <<>>
  THEN [threw |-> TRUE, leg |-> <<>>]
  ELSE LET segments == ticket.segments[1] IN
       IF Len(segments) < i + 1
       THEN [threw |-> FALSE, leg |-> <<>>]
       ELSE IF segments[i + 1].flight_legs = <<>>
       THEN [threw |-> TRUE, leg |-> <<>>]
       ELSE LET legs == segments[i + 1].flight_legs[1] IN
            [threw |-> FALSE,
             leg |-> IF legs = <<>> THEN <<>> ELSE <<legs[1]>>]

\* flightOf without the placeholder: a missing number stays empty.
flightOf_absent(leg) ==
  IF leg = <<>> THEN <<>> ELSE leg[1].flight_number

\* leg?.flight_number || "Unknown"
flightOf(leg) ==
  IF leg = <<>> \/ leg[1].flight_number = <<>> THEN Unknown
  ELSE leg[1].flight_number

\* flight.substring(0, 2)
airlineOf(flight) == substring(flight, 0, 2)

\* outboundLeg?.origin || "Unknown"
originOf(leg) ==
  IF leg = <<>> \/ leg[1].origin = "" THEN "Unknown" ELSE leg[1].origin

\* outboundLeg?.destination || "Unknown"
destinationOf(leg) ==
  IF leg = <<>> \/ leg[1].destination = "" THEN "Unknown"
  ELSE leg[1].destination

\* The values the loop body derives from a ticket before it touches the store.
extract(ticket) ==
  LET outboundLeg == firstLeg(ticket, 0)
      returnLeg == firstLeg(ticket, 1)
      outboundFlight == flightOf(outboundLeg.leg)
      returnFlight == flightOf(returnLeg.leg)
  IN [threw |-> outboundLeg.threw \/ returnLeg.threw,
      outboundFlight |-> outboundFlight,
      outboundAirline |-> airlineOf(outboundFlight),
      returnFlight |-> returnFlight,
      returnAirline |-> airlineOf(returnFlight),
      origin |-> originOf(outboundLeg.leg),
      destination |-> destinationOf(outboundLeg.leg)]

\* whereOf that also compares the price.
whereOf_withPrice(ticket) ==
  LET x == extract(ticket) IN
  [departureAt |-> ticket.departure_at,
   returnAt |-> ticket.return_at,
   price |-> ticket.value,
   outboundFlight |-> x.outboundFlight,
   returnFlight |-> x.returnFlight,
   origin |-> x.origin,
   destination |-> x.destination]

\* whereOf that leaves the return flight out.
whereOf_noReturnFlight(ticket) ==
  LET x == extract(ticket) IN
  [departureAt |-> ticket.departure_at,
   returnAt |-> ticket.return_at,
   outboundFlight |-> x.outboundFlight,
   origin |-> x.origin,
   destination |-> x.destination]

\* The `where` of findFirst.
whereOf(ticket) ==
  LET x == extract(ticket) IN
  [departureAt |-> ticket.departure_at,
   returnAt |-> ticket.return_at,
   outboundFlight |-> x.outboundFlight,
   returnFlight |-> x.returnFlight,
   origin |-> x.origin,
   destination |-> x.destination]

\* The `data` of create.
ticketData(ticket) ==
  LET x == extract(ticket) IN
  [departureAt |-> ticket.departure_at,
   returnAt |-> ticket.return_at,
   price |-> ticket.value,
   tripDuration |-> ticket.trip_duration,
   ticketLink |-> ticket.ticket_link,
   origin |-> x.origin,
   destination |-> x.destination,
   outboundAirline |-> x.outboundAirline,
   outboundFlight |-> x.outboundFlight,
   returnAirline |-> x.returnAirline,
   returnFlight |-> x.returnFlight]

----------------------------------------------------------------------------
\* The ticket table

\* matches with the columns joined by OR.
matches_any(row, where) == \E column \in DOMAIN where : row[column] = where[column]

\* A row satisfies a `where` when it equals it on every column it names.
matches(row, where) == \A column \in DOMAIN where : row[column] = where[column]

\* client.ticket.findFirst({where}): the first matching row, or nothing.
findFirst(table, where) ==
  LET hits == {i \in 1..Len(table) : matches(table[i], where)} IN
  IF hits = {} THEN <<>>
  ELSE <<table[CHOOSE i \in hits : \A j \in hits : i <= j]>>

\* create on a table that refuses a second row with the same six columns.
create_unique(table, data) ==
  IF \E i \in 1..Len(table) :
       /\ table[i].departureAt = data.departureAt
       /\ table[i].returnAt = data.returnAt
       /\ table[i].outboundFlight = data.outboundFlight
       /\ table[i].returnFlight = data.returnFlight
       /\ table[i].origin = data.origin
       /\ table[i].destination = data.destination
  THEN table
  ELSE Append(table, [id |-> Len(table) + 1] @@ data)

\* create as an upsert: a row with the same six columns takes the new price.
create_upsert(table, data) ==
  LET key == [c \in {"departureAt", "returnAt", "outboundFlight",
                     "returnFlight", "origin", "destination"} |-> data[c]]
  IN IF \E i \in 1..Len(table) : matches(table[i], key)
     THEN [i \in 1..Len(table) |->
             IF matches(table[i], key)
             THEN [table[i] EXCEPT !.price = data.price]
             ELSE table[i]]
     ELSE Append(table, [id |-> Len(table) + 1] @@ data)

\* create that inserts the row a second time, as a blind retry would.
create_twice(table, data) ==
  Append(Append(table, [id |-> Len(table) + 1] @@ data),
         [id |-> Len(table) + 2] @@ data)

\* client.ticket.create({data}): the table with the row appended under the
\* next autoincrement id.
create(table, data) ==
  Append(table,
         [id |-> Len(table) + 1,
          departureAt |-> data.departureAt,
          returnAt |-> data.returnAt,
          price |-> data.price,
          tripDuration |-> data.tripDuration,
          ticketLink |-> data.ticketLink,
          origin |-> data.origin,
          destination |-> data.destination,
          outboundAirline |-> data.outboundAirline,
          outboundFlight |-> data.outboundFlight,
          returnAirline |-> data.returnAirline,
          returnFlight |-> data.returnFlight])

\* The link completion without its test: every link gets the prefix.
fixLink_always(ticket) ==
  [ticket EXCEPT !.ticket_link = searchPrefix \o ticket.ticket_link]

\* The forEach that completes relative ticket links.
fixLink(ticket) ==
  IF ticket.ticket_link # <<>> /\ ~startsWith(ticket.ticket_link, http)
  THEN [ticket EXCEPT !.ticket_link = searchPrefix \o ticket.ticket_link]
  ELSE ticket

fixLinks(tickets) == [i \in 1..Len(tickets) |-> fixLink(tickets[i])]

----------------------------------------------------------------------------
\* Requests

RequiredFields == {"origin", "destination", "departDateMin", "departDateMax",
                   "returnDateMin", "returnDateMax"}

fullBody ==
  [origin |-> "YUL", destination |-> "YVR",
   departDateMin |-> "2025-07-25", departDateMax |-> "2025-07-29",
   returnDateMin |-> "2025-08-07", returnDateMax |-> "2025-08-11"]

emptyBody == [f \in RequiredFields |-> ""]

\* Request bodies: complete, lacking one required field, lacking all of them.
Bodies ==
  {fullBody, emptyBody} \cup {[fullBody EXCEPT ![f] = ""] : f \in RequiredFields}

\* The validation without its last operand.
missingRequired_short(body) ==
  \/ body.origin = ""
  \/ body.destination = ""
  \/ body.departDateMin = ""
  \/ body.departDateMax = ""
  \/ body.returnDateMin = ""

\* !origin || !destination || !departDateMin || ... of the validation.
missingRequired(body) ==
  \/ body.origin = ""
  \/ body.destination = ""
  \/ body.departDateMin = ""
  \/ body.departDateMax = ""
  \/ body.returnDateMin = ""
  \/ body.returnDateMax = ""

\* Values a caller may give for limit and for currency.
Limits ==
  {undefined, jsNull,
   jsNumber(<<"0">>), jsNumber(<<"3">>), jsNumber(<<"-", "3">>),
   jsNumber(<<"2", ".", "7">>),
   jsString(<<"1", "0">>), jsString(<<"a", "b", "c">>),
   jsString(<<"7", "a">>), jsString(<<>>)}

Currencies ==
  {undefined, jsNull, jsString(<<"C", "A", "D">>), jsString(<<"u", "s", "d">>)}

\* Complete bodies that also carry limit and currency.
OptionBodies ==
  {fullBody @@ [limit |-> l, currency |-> c] : l \in Limits, c \in Currencies}

\* An optional field of the body; the bodies of Bodies name none.
optionOf(body, f) == IF f \in DOMAIN body THEN body[f] ELSE undefined

cad == <<"c", "a", "d">>

\* const {currency = 'cad', limit = 5} = req.body
currencyOf(body) == withDefault(optionOf(body, "currency"), jsString(cad))

limitOf(body) == withDefault(optionOf(body, "limit"), jsNumber(<<"5">>))

\* ${parseInt(limit) || 5}: NaN and 0 are falsy.
pagingLimit(body) ==
  LET parsed == parseInt(limitOf(body))
  IN IF parsed.nan \/ parsed.n = 0 THEN 5 ELSE parsed.n

\* currency.toLowerCase() throws a TypeError on what is not a string.
queryThrows(body) == currencyOf(body).type # "string"

\* The arguments of prices_round_trip in the query the search route builds.
\* For the bodies of Bodies, which name neither limit nor currency, the
\* defaults stand: 5 and "cad".
graphqlQuery(body) ==
  [origin |-> body.origin, destination |-> body.destination,
   depart_date_min |-> body.departDateMin,
   depart_date_max |-> body.departDateMax,
   return_date_min |-> body.returnDateMin,
   return_date_max |-> body.returnDateMax,
   no_lowcost |-> TRUE, limit |-> pagingLimit(body), offset |-> 0,
   sorting |-> "VALUE_ASC", currency |-> toLowerCase(currencyOf(body).s)]

\* A request slot that handles nothing.  The fields from netCalls on record
\* what the handling did and met, for the properties to read; the code has
\* no such variables: the calls made, the errors caught (storeFaults those
\* of them that a lookup or an insert raised), the table's length when the
\* loop began, what the upstream answered, the message of the error that
\* reached the route's catch.  A resubmission carries the ticket list and
\* the error count of the run it repeats.  upstream is the ticket list as
\* the upstream sent it, returned the `tickets` field of the response, query
\* the query posted (none, or one).
idleRequest ==
  [route |-> "none", pc |-> "idle", body |-> emptyBody, tickets |-> <<>>,
   idx |-> 0, newTicketsCount |-> 0, duplicatesCount |-> 0,
   status |-> 0, success |-> FALSE, message |-> "", requestId |-> FALSE,
   hasStats |-> FALSE, netCalls |-> 0, probes |-> 0, lookups |-> 0,
   creates |-> 0,
   errors |-> 0, storeFaults |-> 0, aborted |-> FALSE, rowsBefore |-> 0,
   envelope |-> "pending", thrown |-> "", upstream |-> <<>>,
   returned |-> <<>>, query |-> <<>>,
   resubmits |-> FALSE, prevTickets |-> <<>>, prevErrors |-> 0]

\* res.status(code).json({success, message}) of the early returns.
respond(r, code, ok, msg) ==
  [r EXCEPT !.pc = "done", !.status = code, !.success = ok, !.message = msg]

\* The catch block without the requestId.
respondError_noRequestId(r, errorMessage) ==
  [r EXCEPT !.pc = "done", !.status = 500, !.success = FALSE,
            !.thrown = errorMessage,
            !.message = IF env.production
                        THEN "An unexpected error occurred"
                        ELSE IF errorMessage = "" THEN "Unknown error"
                        ELSE errorMessage]

\* The catch block that echoes the error's message in every mode.
respondError_echo(r, errorMessage) ==
  [r EXCEPT !.pc = "done", !.status = 500, !.success = FALSE,
            !.thrown = errorMessage,
            !.message = IF errorMessage = "" THEN "Unknown error"
                        ELSE errorMessage,
            !.requestId = TRUE]

\* The catch block of a route: HTTP 500 with the error's message, or the
\* generic one in production, and a generated requestId.
respondError(r, errorMessage) ==
  [r EXCEPT !.pc = "done", !.status = 500, !.success = FALSE,
            !.thrown = errorMessage,
            !.message = IF env.production
                        THEN "An unexpected error occurred"
                        ELSE IF errorMessage = "" THEN "Unknown error"
                        ELSE errorMessage,
            !.requestId = TRUE]

\* respondTickets that returns the list only when every ticket was stored
\* or found.
respondTickets_persisted(r) ==
  [r EXCEPT !.pc = "done", !.status = 200, !.success = TRUE,
            !.message = "Found flights", !.hasStats = TRUE,
            !.returned = IF r.errors = 0 THEN r.tickets ELSE <<>>]

\* respondTickets that takes an empty list for a failure.
respondTickets_emptyFails(r) ==
  IF r.tickets = <<>>
  THEN respondError(r, "No tickets found")
  ELSE [r EXCEPT !.pc = "done", !.status = 200, !.success = TRUE,
                 !.message = "Found flights", !.hasStats = TRUE,
                 !.returned = r.tickets]

\* res.json({success: true, message, tickets, dbStats}) of the search route.
respondTickets(r) ==
  [r EXCEPT !.pc = "done", !.status = 200, !.success = TRUE,
            !.message = "Found flights", !.hasStats = TRUE,
            !.returned = r.tickets]

\* The search route's loop from ticket i up to its next await: a ticket whose
\* legs cannot be read is caught and skipped; a readable one is looked up;
\* after the last one the response is sent.
RECURSIVE searchLoop(_, _)
searchLoop(r, i) ==
  IF i > Len(r.tickets)
  THEN respondTickets([r EXCEPT !.idx = i])
  ELSE IF extract(r.tickets[i]).threw
  THEN searchLoop([r EXCEPT !.errors = @ + 1], i + 1)
  ELSE [r EXCEPT !.pc = "find", !.idx = i, !.lookups = @ + 1]

\* What the route does with the outcome of fetchAndStoreTickets: success, or
\* its catch block for the error thrown.
checkAnswer(r, errorMessage) ==
  IF errorMessage = ""
  THEN respond(r, 200, TRUE, "Price check completed successfully")
  ELSE respondError(r, errorMessage)

\* fetchAndStoreTickets leaves its try block, returning (errorMessage "") or
\* rethrowing: the compiled file hands the outcome to the route; the source
\* first awaits $disconnect in its finally block.
checkSettle(r, errorMessage) ==
  IF env.rebuilt
  THEN [r EXCEPT !.pc = "finally", !.thrown = errorMessage]
  ELSE checkAnswer(r, errorMessage)

\* fetchAndStoreTickets' loop at ticket i.  In the compiled file nothing
\* catches inside the loop, so unreadable legs reject the call; the source
\* catches per ticket and goes on.
RECURSIVE checkLoop(_, _)
checkLoop(r, i) ==
  IF i > Len(r.tickets)
  THEN checkSettle([r EXCEPT !.idx = i], "")
  ELSE IF extract(r.tickets[i]).threw
  THEN IF env.rebuilt
       THEN checkLoop([r EXCEPT !.errors = @ + 1], i + 1)
       ELSE checkSettle([r EXCEPT !.idx = i, !.errors = @ + 1,
                                  !.aborted = TRUE],
                        "Cannot read properties of undefined")
  ELSE [r EXCEPT !.pc = "find", !.idx = i, !.lookups = @ + 1]

\* A lookup or an insert of fetchAndStoreTickets rejects: the compiled file
\* leaves the loop and the function, the source goes on with the next ticket.
checkFault(r) ==
  LET met == [r EXCEPT !.errors = @ + 1, !.storeFaults = @ + 1] IN
  IF env.rebuilt
  THEN checkLoop(met, r.idx + 1)
  ELSE checkSettle([met EXCEPT !.aborted = TRUE],
                   "Can't reach database server")

\* probeFault that treats the failed test as the loop treats a failed ticket.
probeFault_caught(r) ==
  checkLoop([r EXCEPT !.errors = @ + 1, !.storeFaults = @ + 1], 1)

\* The source's connection test rejects: the function throws a new error.
probeFault(r) ==
  checkSettle([r EXCEPT !.errors = @ + 1, !.storeFaults = @ + 1,
                        !.aborted = TRUE],
              "Database connection failed")

slotFree(p) == req[p].pc \in {"idle", "done"}

\* A new request is handled in the first slot that is free.
takesSlot(p) == slotFree(p) /\ \A q \in Procs : q < p => ~slotFree(q)

\* The slot's last request ran its store loop, so that it can be repeated.
ranLoop(r) == r.pc = "done" /\ r.idx > 0

\* The upstream answers a resubmission with the list it gave before.
sameAnswer(r, tickets) == r.resubmits => tickets = r.prevTickets

\* What a request remembers of the one it resubmits.
resubmission(old, route) ==
  [idleRequest EXCEPT !.route = route, !.body = old.body, !.resubmits = TRUE,
                      !.prevTickets = old.tickets, !.prevErrors = old.errors]

----------------------------------------------------------------------------
\* The process and its Prisma clients

\* The process is up: handlers run from module evaluation until process.exit,
\* the SIGINT handler's await included.
serving == proc \in {"running", "stopping"}

\* getPrismaClient: the module's `prisma` is made on first use and returned
\* as it is ever after.  h is the state of the module's client: "none" while
\* the variable is unset, "open", "closed" once disconnected.
getPrismaClient(h) == IF h = "none" THEN "open" ELSE h

Init ==
  /\ env \in [token : BOOLEAN, database : BOOLEAN, production : BOOLEAN,
              rebuilt : BOOLEAN]
  /\ proc = "loading"
  /\ handles = [api |-> "none", dist |-> "none"]
  /\ store = <<>>
  /\ req = [p \in Procs |-> idleRequest]
  /\ started = 0

\* Boot that exits for a missing variable only in production.
Boot_lenient ==
  /\ proc = "loading"
  /\ proc' = IF (~env.token \/ ~env.database) /\ env.production
             THEN "exited" ELSE "running"
  /\ UNCHANGED <<env, handles, store, req, started>>

\* Module evaluation.  The import of src/dist/index.js exits when the token
\* (env.token: TRAVELPAYOUTS_API_TOKEN is set) is missing; then
\* src/api/index.js exits in production when a required variable is
\* missing, which by then can only be DATABASE_URL (env.database).  Outside
\* production the server goes on without DATABASE_URL; what a store call
\* does then is Prisma's and its schema's, so both outcomes stay open.
Boot ==
  /\ proc = "loading"
  /\ proc' = IF ~env.token \/ (env.production /\ ~env.database)
             THEN "exited" ELSE "running"
  /\ UNCHANGED <<env, handles, store, req, started>>

----------------------------------------------------------------------------
\* POST /api/search-flights

\* searchBegin that looks the search up in the table before it posts.
searchBegin_lookupFirst(r) ==
  IF missingRequired(r.body)
  THEN respond(r, 400, FALSE, "Missing required search parameters")
  ELSE IF queryThrows(r.body)
  THEN respondError(r, "currency.toLowerCase is not a function")
  ELSE IF ~env.token
  THEN respond(r, 500, FALSE, "API key not configured on server")
  ELSE [r EXCEPT !.pc = "import", !.lookups = @ + 1]

\* searchBegin whose validation answers 400 and, lacking the return, goes
\* on to the upstream call.
searchBegin_noReturn(r) ==
  IF missingRequired(r.body)
  THEN [respond(r, 400, FALSE, "Missing required search parameters")
          EXCEPT !.pc = "import"]
  ELSE IF queryThrows(r.body)
  THEN respondError(r, "currency.toLowerCase is not a function")
  ELSE IF ~env.token
  THEN respond(r, 500, FALSE, "API key not configured on server")
  ELSE [r EXCEPT !.pc = "import"]

\* The handler from the request to its first await: validation, the query
\* string (building it throws on a currency that is no string), API key
\* check; then it awaits import('axios') and yields.
searchBegin(r) ==
  IF missingRequired(r.body)
  THEN respond(r, 400, FALSE, "Missing required search parameters")
  ELSE IF queryThrows(r.body)
  THEN respondError(r, "currency.toLowerCase is not a function")
  ELSE IF ~env.token
  THEN respond(r, 500, FALSE, "API key not configured on server")
  ELSE [r EXCEPT !.pc = "import"]

\* axios is there: the query built before the await is posted.
searchPost(r) ==
  [r EXCEPT !.pc = "upstream", !.netCalls = @ + 1,
            !.query = <<graphqlQuery(r.body)>>]

\* A search request arrives.
SearchStart(p) ==
  /\ serving
  /\ takesSlot(p)
  /\ started < MaxRuns
  /\ \E body \in Bodies :
       req' = [req EXCEPT ![p] =
                 searchBegin([idleRequest EXCEPT !.route = "search",
                                                 !.body = body])]
  /\ started' = started + 1
  /\ UNCHANGED <<env, proc, handles, store>>

\* A search request arrives whose body names limit and currency.
SearchOptions(p) ==
  /\ serving
  /\ takesSlot(p)
  /\ started < MaxRuns
  /\ \E body \in OptionBodies :
       req' = [req EXCEPT ![p] =
                 searchBegin([idleRequest EXCEPT !.route = "search",
                                                 !.body = body])]
  /\ started' = started + 1
  /\ UNCHANGED <<env, proc, handles, store>>

\* The client submits the search it has just been answered once more.
SearchResubmit(p) ==
  /\ serving
  /\ req[p].route = "search"
  /\ ranLoop(req[p])
  /\ started < MaxRuns
  /\ req' = [req EXCEPT ![p] = searchBegin(resubmission(req[p], "search"))]
  /\ started' = started + 1
  /\ UNCHANGED <<env, proc, handles, store>>

\* The awaited import settles and the handler calls axios.post.
SearchPost(p) ==
  /\ serving
  /\ req[p].route = "search"
  /\ req[p].pc = "import"
  /\ req' = [req EXCEPT ![p] = searchPost(req[p])]
  /\ UNCHANGED <<env, proc, handles, store, started>>

\* The upstream call fails, or its answer lacks a level of the envelope.
SearchUpstreamBad(p) ==
  /\ serving
  /\ req[p].route = "search"
  /\ req[p].pc = "upstream"
  /\ \E resp \in Responses :
       /\ resp.rejected \/ resp.levels < 3
       /\ req' = [req EXCEPT ![p] =
            respondError([req[p] EXCEPT !.envelope = envelopeOf(resp)],
              IF resp.rejected THEN "Request failed"
              ELSE IF resp.levels = 0 THEN "No data in API response"
              ELSE IF resp.levels = 1
              THEN "Invalid API response format: missing data.data"
              ELSE "Invalid API response format: missing prices_round_trip")]
  /\ UNCHANGED <<env, proc, handles, store, started>>

\* The upstream answers with a ticket list: links are completed, the client
\* is taken, and the loop runs up to its first lookup.
SearchUpstreamOk(p) ==
  /\ serving
  /\ req[p].route = "search"
  /\ req[p].pc = "upstream"
  /\ \E resp \in Responses :
       /\ ~resp.rejected /\ resp.levels = 3
       /\ sameAnswer(req[p], fixLinks(resp.tickets))
       /\ req' = [req EXCEPT ![p] =
            searchLoop([req[p] EXCEPT !.tickets = fixLinks(resp.tickets),
                                      !.upstream = resp.tickets,
                                      !.envelope = envelopeOf(resp),
                                      !.prevTickets = <<>>,
                                      !.rowsBefore = Len(store)], 1)]
  /\ handles' = [handles EXCEPT !.api = getPrismaClient(@)]
  /\ UNCHANGED <<env, proc, store, started>>

\* findFirst settles: a hit counts a duplicate, a miss calls create, a
\* rejection is caught and the loop goes on.
SearchFind(p) ==
  /\ serving
  /\ req[p].route = "search"
  /\ req[p].pc = "find"
  /\ \E ok \in BOOLEAN :
       LET r == req[p]
           existingTicket == findFirst(store, whereOf(r.tickets[r.idx]))
       IN req' = [req EXCEPT ![p] =
            IF ~ok
            THEN searchLoop([r EXCEPT !.errors = @ + 1,
                                      !.storeFaults = @ + 1], r.idx + 1)
            ELSE IF existingTicket # <<>>
            THEN searchLoop([r EXCEPT !.duplicatesCount = @ + 1], r.idx + 1)
            ELSE [r EXCEPT !.pc = "create", !.creates = @ + 1]]
  /\ UNCHANGED <<env, proc, handles, store, started>>

\* create settles: the row is in the table and counted, or the rejection is
\* caught and the loop goes on.
SearchCreate(p) ==
  /\ serving
  /\ req[p].route = "search"
  /\ req[p].pc = "create"
  /\ \E ok \in BOOLEAN :
       LET r == req[p] IN
       /\ req' = [req EXCEPT ![p] =
            IF ok
            THEN searchLoop([r EXCEPT !.newTicketsCount = @ + 1], r.idx + 1)
            ELSE searchLoop([r EXCEPT !.errors = @ + 1,
                                      !.storeFaults = @ + 1], r.idx + 1)]
       /\ store' = IF ok THEN create(store, ticketData(r.tickets[r.idx]))
                   ELSE store
  /\ UNCHANGED <<env, proc, handles, started>>

----------------------------------------------------------------------------
\* GET /api/run-price-check, which awaits fetchAndStoreTickets

\* fetchAndStoreTickets up to its await: it takes its module's client and
\* posts the fixed query.
checkBegin(r) == [r EXCEPT !.pc = "upstream", !.netCalls = @ + 1]

\* A price check is triggered.
CheckStart(p) ==
  /\ serving
  /\ takesSlot(p)
  /\ started < MaxRuns
  /\ req' = [req EXCEPT ![p] =
               checkBegin([idleRequest EXCEPT !.route = "check"])]
  /\ handles' = [handles EXCEPT !.dist = getPrismaClient(@)]
  /\ started' = started + 1
  /\ UNCHANGED <<env, proc, store>>

\* The price check is triggered once more after it has been answered.
CheckResubmit(p) ==
  /\ serving
  /\ req[p].route = "check"
  /\ ranLoop(req[p])
  /\ started < MaxRuns
  /\ req' = [req EXCEPT ![p] = checkBegin(resubmission(req[p], "check"))]
  /\ handles' = [handles EXCEPT !.dist = getPrismaClient(@)]
  /\ started' = started + 1
  /\ UNCHANGED <<env, proc, store>>

\* The message of the error the source throws for an answer that lacks a
\* level of the envelope.
envelopeError(resp) ==
  IF resp.levels = 0 THEN "No data in API response"
  ELSE IF resp.levels = 1
  THEN "Invalid API response format: missing data.data"
  ELSE "Invalid API response format: missing prices_round_trip"

\* The upstream call fails: the function rethrows and the route answers 500.
CheckUpstreamRejected(p) ==
  /\ serving
  /\ req[p].route = "check"
  /\ req[p].pc = "upstream"
  /\ \E resp \in Responses :
       /\ resp.rejected
       /\ req' = [req EXCEPT ![p] =
            checkSettle([req[p] EXCEPT !.envelope = envelopeOf(resp)],
                        "Request failed")]
  /\ UNCHANGED <<env, proc, handles, store, started>>

\* The upstream answers.  The compiled file returns on an incomplete envelope
\* and the route reports success; the source throws.  An empty list makes
\* both return.  A ticket list starts the loop of the compiled file and the
\* connection test of the source.
CheckUpstreamAnswer(p) ==
  /\ serving
  /\ req[p].route = "check"
  /\ req[p].pc = "upstream"
  /\ \E resp \in Responses :
       /\ ~resp.rejected
       /\ resp.levels = 3 => sameAnswer(req[p], resp.tickets)
       /\ LET r == [req[p] EXCEPT !.envelope = envelopeOf(resp),
                                  !.prevTickets = <<>>]
          IN req' = [req EXCEPT ![p] =
               IF resp.levels < 3
               THEN checkSettle(r, IF env.rebuilt THEN envelopeError(resp)
                                   ELSE "")
               ELSE IF resp.tickets = <<>>
               THEN checkSettle(r, "")
               ELSE LET got == [r EXCEPT !.tickets = resp.tickets,
                                         !.upstream = resp.tickets,
                                         !.rowsBefore = Len(store)]
                    IN IF env.rebuilt
                       THEN [got EXCEPT !.pc = "probe", !.probes = @ + 1]
                       ELSE checkLoop(got, 1)]
  /\ UNCHANGED <<env, proc, handles, store, started>>

\* The source's connection test (SELECT 1) settles: the loop starts, or the
\* function throws.
CheckProbe(p) ==
  /\ serving
  /\ req[p].route = "check"
  /\ req[p].pc = "probe"
  /\ \E ok \in BOOLEAN :
       LET r == req[p] IN
       req' = [req EXCEPT ![p] =
         IF ok
         THEN checkLoop([r EXCEPT !.rowsBefore = Len(store)], 1)
         ELSE probeFault(r)]
  /\ UNCHANGED <<env, proc, handles, store, started>>

\* findFirst settles: a hit counts a duplicate, a miss calls create, a
\* rejection is a fault.
CheckFind(p) ==
  /\ serving
  /\ req[p].route = "check"
  /\ req[p].pc = "find"
  /\ \E ok \in BOOLEAN :
       LET r == req[p]
           existingTicket == findFirst(store, whereOf(r.tickets[r.idx]))
       IN req' = [req EXCEPT ![p] =
            IF ~ok
            THEN checkFault(r)
            ELSE IF existingTicket # <<>>
            THEN checkLoop([r EXCEPT !.duplicatesCount = @ + 1], r.idx + 1)
            ELSE [r EXCEPT !.pc = "create", !.creates = @ + 1]]
  /\ UNCHANGED <<env, proc, handles, store, started>>

\* create settles: the row is in the table and counted, or the rejection is
\* a fault.
CheckCreate(p) ==
  /\ serving
  /\ req[p].route = "check"
  /\ req[p].pc = "create"
  /\ \E ok \in BOOLEAN :
       LET r == req[p] IN
       /\ req' = [req EXCEPT ![p] =
            IF ok
            THEN checkLoop([r EXCEPT !.newTicketsCount = @ + 1], r.idx + 1)
            ELSE checkFault(r)]
       /\ store' = IF ok THEN create(store, ticketData(r.tickets[r.idx]))
                   ELSE store
  /\ UNCHANGED <<env, proc, handles, started>>

\* The source's finally block: $disconnect settles (an error of it is caught)
\* and the function returns or rethrows to the route.
CheckFinally(p) ==
  /\ serving
  /\ req[p].route = "check"
  /\ req[p].pc = "finally"
  /\ req' = [req EXCEPT ![p] = checkAnswer(req[p], req[p].thrown)]
  /\ handles' = [handles EXCEPT !.dist = "closed"]
  /\ UNCHANGED <<env, proc, store, started>>

----------------------------------------------------------------------------
\* GET /api/health

\* The health check answers at once and touches neither the upstream nor the
\* store.
Health(p) ==
  /\ serving
  /\ takesSlot(p)
  /\ started < MaxRuns
  /\ req' = [req EXCEPT ![p] =
               respond([idleRequest EXCEPT !.route = "health"],
                       200, TRUE, "Server is running")]
  /\ started' = started + 1
  /\ UNCHANGED <<env, proc, handles, store>>

----------------------------------------------------------------------------
\* Shutdown

\* SIGINT arrives: the handler of src/api/index.js disconnects that module's
\* client when there is one, and exits at once when there is none.
Sigint ==
  /\ proc = "running"
  /\ proc' = IF handles.api # "none" THEN "stopping" ELSE "exited"
  /\ UNCHANGED <<env, handles, store, req, started>>

\* prisma.$disconnect() settles and the handler calls process.exit(0).
SigintExit ==
  /\ proc = "stopping"
  /\ handles' = [handles EXCEPT !.api = "closed"]
  /\ proc' = "exited"
  /\ UNCHANGED <<env, store, req, started>>

----------------------------------------------------------------------------
\* src/index.ts run from the command line

\* The script's fetchAndStoreTickets leaves its try block, returning
\* (errorMessage "") or rethrowing; its finally block awaits $disconnect.
cliEnd(r, errorMessage) ==
  [r EXCEPT !.pc = "finally", !.thrown = errorMessage]

\* The script's loop at ticket i: the legs are read and the row is created,
\* without a lookup; nothing catches inside the loop.
cliLoop(r, i) ==
  IF i > Len(r.tickets)
  THEN cliEnd([r EXCEPT !.idx = i], "")
  ELSE IF extract(r.tickets[i]).threw
  THEN cliEnd([r EXCEPT !.idx = i, !.errors = @ + 1, !.aborted = TRUE],
              "Cannot read properties of undefined")
  ELSE [r EXCEPT !.pc = "create", !.idx = i, !.creates = @ + 1]

\* The script up to its await: the token is there, or the process would
\* have exited, and the fixed query is posted.
cliBegin(r) == [r EXCEPT !.pc = "upstream", !.netCalls = @ + 1]

\* The script is started.
CliStart(p) ==
  /\ env.token
  /\ takesSlot(p)
  /\ started < MaxRuns
  /\ req' = [req EXCEPT ![p] = cliBegin([idleRequest EXCEPT !.route = "cli"])]
  /\ started' = started + 1
  /\ UNCHANGED <<env, proc, handles, store>>

\* The script is started once more after it has ended.
CliResubmit(p) ==
  /\ env.token
  /\ req[p].route = "cli"
  /\ ranLoop(req[p])
  /\ started < MaxRuns
  /\ req' = [req EXCEPT ![p] = cliBegin(resubmission(req[p], "cli"))]
  /\ started' = started + 1
  /\ UNCHANGED <<env, proc, handles, store>>

\* The upstream call settles: a rejection is rethrown, an incomplete
\* envelope or an empty list makes the function return, a ticket list starts
\* the loop.
CliUpstream(p) ==
  /\ req[p].route = "cli"
  /\ req[p].pc = "upstream"
  /\ \E resp \in Responses :
       /\ (~resp.rejected /\ resp.levels = 3) =>
            sameAnswer(req[p], resp.tickets)
       /\ LET r == [req[p] EXCEPT !.envelope = envelopeOf(resp),
                                  !.prevTickets = <<>>]
          IN req' = [req EXCEPT ![p] =
               IF resp.rejected THEN cliEnd(r, "Request failed")
               ELSE IF resp.levels < 3 \/ resp.tickets = <<>>
               THEN cliEnd(r, "")
               ELSE cliLoop([r EXCEPT !.tickets = resp.tickets,
                                      !.upstream = resp.tickets,
                                      !.rowsBefore = Len(store)], 1)]
  /\ UNCHANGED <<env, proc, handles, store, started>>

\* create settles: the row is in the table, or the rejection leaves the
\* loop.
CliCreate(p) ==
  /\ req[p].route = "cli"
  /\ req[p].pc = "create"
  /\ \E ok \in BOOLEAN :
       LET r == req[p] IN
       /\ req' = [req EXCEPT ![p] =
            IF ok
            THEN cliLoop([r EXCEPT !.newTicketsCount = @ + 1], r.idx + 1)
            ELSE cliEnd([r EXCEPT !.errors = @ + 1, !.storeFaults = @ + 1,
                                  !.aborted = TRUE],
                        "Can't reach database server")]
       /\ store' = IF ok THEN create(store, ticketData(r.tickets[r.idx]))
                   ELSE store
  /\ UNCHANGED <<env, proc, handles, started>>

\* $disconnect settles and the script ends: exit code 0, or 1 for the
\* rejection nobody handles.  A $disconnect that rejects inside finally
\* takes the place of whatever the try block had thrown.
CliFinally(p) ==
  /\ req[p].route = "cli"
  /\ req[p].pc = "finally"
  /\ \E ok \in BOOLEAN :
       LET thrown == IF ok THEN req[p].thrown ELSE "disconnect failed"
       IN req' = [req EXCEPT ![p] =
            IF thrown = ""
            THEN respond(req[p], 0, TRUE, "Saved tickets to database")
            ELSE respond([req[p] EXCEPT !.thrown = thrown], 1, FALSE, thrown)]
  /\ UNCHANGED <<env, proc, handles, store, started>>

----------------------------------------------------------------------------
\* Specifications

\* Requests are handled as they come, interleaved at every await.
Next ==
  \/ Boot
  \/ Sigint
  \/ SigintExit
  \/ \E p \in Procs :
       \/ SearchStart(p)
       \/ SearchResubmit(p)
       \/ SearchPost(p)
       \/ SearchUpstreamBad(p)
       \/ SearchUpstreamOk(p)
       \/ SearchFind(p)
       \/ SearchCreate(p)
       \/ CheckStart(p)
       \/ CheckResubmit(p)
       \/ CheckUpstreamRejected(p)
       \/ CheckUpstreamAnswer(p)
       \/ CheckFind(p)
       \/ CheckCreate(p)
       \/ CheckProbe(p)
       \/ CheckFinally(p)
       \/ Health(p)

Spec == Init /\ [][Next]_vars

\* One request at a time: a request arrives only after the one before it
\* has been answered, so that store steps never overlap.
NextSeq ==
  \/ Boot
  \/ Sigint
  \/ SigintExit
  \/ SearchStart(1)
  \/ SearchResubmit(1)
  \/ SearchPost(1)
  \/ SearchUpstreamBad(1)
  \/ SearchUpstreamOk(1)
  \/ SearchFind(1)
  \/ SearchCreate(1)
  \/ CheckStart(1)
  \/ CheckResubmit(1)
  \/ CheckUpstreamRejected(1)
  \/ CheckUpstreamAnswer(1)
  \/ CheckFind(1)
  \/ CheckCreate(1)
  \/ CheckProbe(1)
  \/ CheckFinally(1)
  \/ Health(1)

SpecSeq == Init /\ [][NextSeq]_vars

\* SpecSeq where every call the search route awaits settles: the import
\* resolves, the upstream call answers or fails, a lookup and an insert return or reject, and the
\* handler goes on from there for as long as the process lives.
SpecSeqFair ==
  /\ SpecSeq
  /\ WF_vars(SearchPost(1))
  /\ WF_vars(SearchUpstreamBad(1) \/ SearchUpstreamOk(1))
  /\ WF_vars(SearchFind(1))
  /\ WF_vars(SearchCreate(1))

\* Searches with limit and currency in the body, one at a time.
NextQuery ==
  \/ Boot
  \/ SearchOptions(1)
  \/ SearchPost(1)
  \/ SearchUpstreamBad(1)
  \/ SearchUpstreamOk(1)
  \/ SearchFind(1)
  \/ SearchCreate(1)

SpecQuery == Init /\ [][NextQuery]_vars

\* The server, one request at a time, and the command-line script, taking
\* turns on the one table.
NextCli ==
  \/ NextSeq
  \/ CliStart(1)
  \/ CliResubmit(1)
  \/ CliUpstream(1)
  \/ CliCreate(1)
  \/ CliFinally(1)

SpecCli == Init /\ [][NextCli]_vars

----------------------------------------------------------------------------
\* Vocabulary of the properties

\* Two records agree on the six columns of the duplicate key.
sameSix(a, b) ==
  /\ a.departureAt = b.departureAt
  /\ a.returnAt = b.returnAt
  /\ a.outboundFlight = b.outboundFlight
  /\ a.returnFlight = b.returnFlight
  /\ a.origin = b.origin
  /\ a.destination = b.destination

\* The duplicate key of a ticket.
sixOf(ticket) ==
  LET x == extract(ticket) IN
  [departureAt |-> ticket.departure_at, returnAt |-> ticket.return_at,
   outboundFlight |-> x.outboundFlight, returnFlight |-> x.returnFlight,
   origin |-> x.origin, destination |-> x.destination]

\* The rows of the table that have the ticket's duplicate key.
rowsOf(table, ticket) ==
  {n \in 1..Len(table) : sameSix(table[n], sixOf(ticket))}

UniqueKeys(table) ==
  \A i, j \in 1..Len(table) : sameSix(table[i], table[j]) => i = j

\* The ticket the slot's loop is at.
current(r) == r.tickets[r.idx]

\* The slot's request has been answered after its loop went through the
\* whole list.
loopDone(r) == r.pc = "done" /\ r.idx = Len(r.tickets) + 1

\* The first ticket of the list with the duplicate key of ticket i.
firstLike(tickets, i) ==
  CHOOSE j \in 1..i :
    /\ sameSix(sixOf(tickets[j]), sixOf(tickets[i]))
    /\ \A k \in 1..(j - 1) : ~sameSix(sixOf(tickets[k]), sixOf(tickets[i]))

distinctKeys(tickets) ==
  \A i, j \in 1..Len(tickets) :
    sameSix(sixOf(tickets[i]), sixOf(tickets[j])) => i = j

----------------------------------------------------------------------------
\* C1.  Claim: whenever the store loop, of the search route or of
\* fetchAndStoreTickets, is run again on the list of the run before it, with
\* nothing written in between, it adds no row and counts no new ticket and
\* as many duplicates as the list is long.
C1_Claim ==
  \A p \in Procs :
    (req[p].pc = "done" /\ req[p].resubmits /\ req[p].idx > 0) =>
      /\ req[p].newTicketsCount = 0
      /\ req[p].duplicatesCount = Len(req[p].tickets)
      /\ Len(store) = req[p].rowsBefore

\* C2.  With store steps that do not overlap, no two rows of the table ever
\* agree on the six key columns, and a ticket is inserted exactly when its
\* lookup found no row: create is called after every lookup that found none
\* and after no other, a lookup that found one counts a duplicate, and the
\* table grows only by the row of a ticket that had none.
C2_SequentialUniqueness ==
  [][/\ UniqueKeys(store')
     /\ \A p \in Procs :
          LET r == req[p]
              after == req'[p]
          IN /\ (r.pc = "find" /\ after # r
                 /\ after.storeFaults = r.storeFaults) =>
                   IF rowsOf(store, current(r)) = {}
                   THEN /\ after.pc = "create" /\ after.idx = r.idx
                        /\ after.duplicatesCount = r.duplicatesCount
                   ELSE /\ after.duplicatesCount = r.duplicatesCount + 1
                        /\ ~(after.pc = "create" /\ after.idx = r.idx)
             /\ (r.pc = "find" /\ after # r) => store' = store
             /\ (r.pc = "create" /\ after # r) =>
                   /\ rowsOf(store, current(r)) = {}
                   /\ Len(store') <= Len(store) + 1
                   /\ Len(store') = Len(store) + 1 =>
                        /\ SubSeq(store', 1, Len(store)) = store
                        /\ sameSix(store'[Len(store')], sixOf(current(r)))
             /\ (r.pc \notin {"find", "create"} /\ after # r) =>
                   store' = store
    ]_vars

C2_Witness ==
  \E p \in Procs :
    /\ loopDone(req[p])
    /\ req[p].newTicketsCount >= 1
    /\ req[p].duplicatesCount >= 1
    /\ Len(store) >= 2

\* C3.  Nothing serialises the lookup and the insert of one request against
\* those of another, and the table enforces no key: an insert that succeeds
\* appends its row whatever the table holds by then, so that two requests
\* that both looked up a key before either inserted leave two rows with it.
C3_InsertUnconditional ==
  [][\A p \in Procs :
       (/\ req[p].pc = "create"
        /\ req'[p].newTicketsCount = req[p].newTicketsCount + 1) =>
          /\ Len(store') = Len(store) + 1
          /\ sameSix(store'[Len(store')], sixOf(current(req[p])))
    ]_vars

C3_Witness ==
  \E i, j \in 1..Len(store) : i < j /\ sameSix(store[i], store[j])

\* C4.  The price is no part of the key: after a run on an empty table in
\* which no store call failed, every ticket of the list whose legs can be
\* read has exactly one row with its six key columns, and that row carries
\* the price of the first ticket of the list with that key; the later ones
\* were counted as duplicates.
C4_PriceNotInKey ==
  \A p \in Procs :
    (loopDone(req[p]) /\ req[p].storeFaults = 0 /\ req[p].rowsBefore = 0) =>
      LET ts == req[p].tickets
          readable == {i \in 1..Len(ts) : ~extract(ts[i]).threw}
      IN /\ \A i \in readable :
              /\ Cardinality(rowsOf(store, ts[i])) = 1
              /\ \A n \in rowsOf(store, ts[i]) :
                   store[n].price = ts[firstLike(ts, i)].value
         /\ req[p].newTicketsCount =
              Cardinality({i \in readable : firstLike(ts, i) = i})
         /\ req[p].duplicatesCount =
              Cardinality({i \in readable : firstLike(ts, i) # i})

C4_Witness ==
  \E p \in Procs :
    /\ loopDone(req[p]) /\ req[p].errors = 0 /\ req[p].rowsBefore = 0
    /\ Len(req[p].tickets) = 2
    /\ sameSix(sixOf(req[p].tickets[1]), sixOf(req[p].tickets[2]))
    /\ req[p].tickets[1].value # req[p].tickets[2].value
    /\ Len(store) = 1
    /\ store[1].price = req[p].tickets[1].value
    /\ req[p].duplicatesCount = 1

\* C5.  A search request that lacks a required field, or has it empty, is
\* answered 400 at once: no upstream call, no lookup, no insert.
C5_MissingField400 ==
  \A p \in Procs :
    (/\ req[p].route = "search"
     /\ \E f \in RequiredFields : req[p].body[f] = "") =>
      /\ req[p].pc = "done"
      /\ req[p].status = 400
      /\ ~req[p].success
      /\ req[p].netCalls = 0
      /\ req[p].lookups = 0
      /\ req[p].creates = 0

C5_Witness ==
  \E p \in Procs :
    /\ req[p].route = "search"
    /\ req[p].body = [fullBody EXCEPT !.returnDateMax = ""]
    /\ req[p].status = 400
    /\ req[p].netCalls = 0

\* C6.  Claim: an upstream answer that lacks the body, the data envelope or
\* the result field makes the request fail with an error that names the
\* missing level, answered 500, with no lookup and no insert.
C6_Claim ==
  \A p \in Procs :
    (/\ req[p].pc = "done"
     /\ req[p].envelope \in {"no body", "no data", "no prices_round_trip"}) =>
      /\ req[p].status = 500
      /\ req[p].thrown =
           (CASE req[p].envelope = "no body" -> "No data in API response"
              [] req[p].envelope = "no data" ->
                   "Invalid API response format: missing data.data"
              [] OTHER ->
                   "Invalid API response format: missing prices_round_trip")
      /\ req[p].lookups = 0
      /\ req[p].creates = 0

\* C7.  Claim: an error on one ticket never ends the run: a request whose
\* loop met an error is answered only after the loop has gone through the
\* whole list.
C7_Claim ==
  \A p \in Procs :
    (req[p].pc = "done" /\ req[p].errors > 0 /\ req[p].idx > 0) =>
      loopDone(req[p])

\* A ticket whose segments can be read and whose second segment is absent.
secondAbsent(ticket) ==
  /\ ticket.segments # <<>>
  /\ Len(ticket.segments[1]) < 2
  /\ \A n \in 1..Len(ticket.segments[1]) :
       ticket.segments[1][n].flight_legs # <<>>

\* The tickets of the list that the loop has passed.
passed(r) ==
  {i \in 1..Len(r.tickets) : i < r.idx \/ (r.pc = "done" /\ i <= r.idx)}

\* C8.  A ticket whose second segment is absent raises no error when its
\* legs are read: the errors caught that no store call raised are no more
\* than the other tickets passed; its lookup, when it finds no row, is
\* followed by the insert; and the row inserted has returnFlight "Unknown"
\* and returnAirline "Un".
C8_SecondSegmentAbsent ==
  [][\A p \in Procs :
       LET r == req[p]
           after == req'[p]
       IN /\ after.errors - after.storeFaults <=
               Cardinality({i \in passed(after) :
                              ~secondAbsent(after.tickets[i])})
          /\ (/\ r.pc = "find" /\ after # r
              /\ secondAbsent(current(r))
              /\ after.storeFaults = r.storeFaults
              /\ rowsOf(store, current(r)) = {}) =>
                after.pc = "create" /\ after.idx = r.idx
          /\ (/\ r.pc = "create" /\ after # r
              /\ secondAbsent(current(r))
              /\ after.storeFaults = r.storeFaults) =>
                /\ Len(store') = Len(store) + 1
                /\ store'[Len(store')].returnFlight = Unknown
                /\ store'[Len(store')].returnAirline = <<"U", "n">>
                /\ store'[Len(store')].departureAt = current(r).departure_at
                /\ after.newTicketsCount = r.newTicketsCount + 1
    ]_vars

C8_Witness ==
  \E p \in Procs :
    /\ req[p].route = "search"
    /\ loopDone(req[p])
    /\ \E i \in 1..Len(req[p].tickets) : secondAbsent(req[p].tickets[i])
    /\ req[p].errors = 0
    /\ \E n \in 1..Len(store) :
         /\ store[n].returnFlight = Unknown
         /\ store[n].returnAirline = <<"U", "n">>
         /\ store[n].id > req[p].rowsBefore

\* C9.  Original statement: on an empty table, a search answered with N
\* tickets reports N new tickets and no duplicate.
C9_Original ==
  \A p \in Procs :
    (/\ req[p].route = "search" /\ req[p].status = 200
     /\ req[p].rowsBefore = 0) =>
      /\ req[p].newTicketsCount = Len(req[p].tickets)
      /\ req[p].duplicatesCount = 0

\* C9, amended: on an empty table and with no other writer at work, a
\* search answered with N tickets reports as new the rows it inserted, one
\* for each key and no more than the readable tickets have keys, and as
\* duplicates the tickets whose key a ticket before them in the list had
\* brought into the table; a ticket that raised an error is counted in
\* neither, so that new, duplicates and failed add up to N.  With no error
\* there is one row for every key of the list, and the report is N new and
\* no duplicate exactly when no ticket raised an error and the N keys differ
\* pairwise.
C9_FreshStore ==
  \A p \in Procs :
    (/\ req[p].route = "search" /\ req[p].status = 200
     /\ req[p].rowsBefore = 0) =>
      LET r == req[p]
          N == Len(r.tickets)
          readable == {i \in 1..N : ~extract(r.tickets[i]).threw}
          keys == {sixOf(r.tickets[i]) : i \in readable}
      IN /\ r.newTicketsCount + r.duplicatesCount + r.errors = N
         /\ Len(store) = r.newTicketsCount
         /\ UniqueKeys(store)
         /\ \A n \in 1..Len(store) : \E k \in keys : sameSix(store[n], k)
         /\ r.duplicatesCount <= N - r.newTicketsCount
         /\ r.duplicatesCount > 0 => r.newTicketsCount > 0
         /\ r.errors = 0 =>
              /\ r.newTicketsCount = Cardinality(keys)
              /\ r.duplicatesCount = N - Cardinality(keys)
         /\ (r.newTicketsCount = N /\ r.duplicatesCount = 0) <=>
              (r.errors = 0 /\ distinctKeys(r.tickets))

C9_Witness ==
  \E p \in Procs :
    /\ req[p].route = "search" /\ req[p].status = 200
    /\ req[p].rowsBefore = 0 /\ req[p].errors = 0
    /\ Len(req[p].tickets) = 2
    /\ distinctKeys(req[p].tickets)
    /\ req[p].newTicketsCount = 2
    /\ Len(store) = 2

C9_WitnessFailed ==
  \E p \in Procs :
    /\ req[p].route = "search" /\ req[p].status = 200
    /\ req[p].rowsBefore = 0
    /\ req[p].upstream = <<ticketA, ticketA2>>
    /\ req[p].storeFaults = 1 /\ req[p].errors = 1
    /\ req[p].newTicketsCount = 1 /\ req[p].duplicatesCount = 0

\* C10.  Original statement: the search route answers 500 with a requestId
\* whenever the upstream call fails or a lookup or an insert raises an error.
C10_Original ==
  \A p \in Procs :
    (/\ req[p].route = "search" /\ req[p].pc = "done"
     /\ (req[p].envelope = "rejected" \/ req[p].storeFaults > 0)) =>
      req[p].status = 500 /\ req[p].requestId

\* C10, amended: the search route answers 500 with a requestId whenever the
\* upstream call fails; an error raised by a lookup or an insert is caught
\* in the loop, and the request is answered 200 with success, without a
\* requestId.
C10_UpstreamFailure500 ==
  \A p \in Procs :
    (req[p].route = "search" /\ req[p].pc = "done") =>
      /\ req[p].envelope = "rejected" =>
           req[p].status = 500 /\ req[p].requestId /\ ~req[p].success
      /\ req[p].storeFaults > 0 =>
           req[p].status = 200 /\ req[p].success /\ ~req[p].requestId

C10_Witness ==
  \E p \in Procs :
    /\ req[p].route = "search" /\ req[p].pc = "done"
    /\ req[p].envelope = "rejected"
    /\ req[p].netCalls = 1
    /\ req[p].status = 500
    /\ req[p].requestId

\* A search request that the upstream answered with a ticket list and that
\* has been answered in its turn.
searched(r) == r.route = "search" /\ r.pc = "done" /\ r.envelope = "tickets"

\* C11.  Original statement: the list the search route returns is the list
\* the upstream sent, ticket for ticket, whatever was stored.
C11_Original ==
  \A p \in Procs : searched(req[p]) => req[p].returned = req[p].upstream

\* C11, amended: the search route answers 200 with success and returns the
\* upstream's tickets in the upstream's order and number, whatever the
\* lookups and inserts did; each ticket is as the upstream sent it but for
\* its ticket_link, which carries the site's prefix when the upstream's link
\* is not empty and does not start with "http".
C11_ReturnedList ==
  \A p \in Procs :
    searched(req[p]) =>
      LET r == req[p] IN
      /\ r.status = 200 /\ r.success
      /\ Len(r.returned) = Len(r.upstream)
      /\ \A i \in 1..Len(r.upstream) :
           LET sent == r.upstream[i]
               got == r.returned[i]
               relative == sent.ticket_link # <<>>
                           /\ ~startsWith(sent.ticket_link, http)
           IN /\ [got EXCEPT !.ticket_link = <<>>] =
                   [sent EXCEPT !.ticket_link = <<>>]
              /\ relative =>
                   got.ticket_link = searchPrefix \o sent.ticket_link
              /\ ~relative => got.ticket_link = sent.ticket_link

C11_Witness ==
  \E p \in Procs :
    /\ searched(req[p])
    /\ Len(req[p].upstream) = 2
    /\ req[p].storeFaults = 2
    /\ Len(req[p].returned) = 2
    /\ req[p].returned[1].ticket_link # req[p].upstream[1].ticket_link
    /\ req[p].returned[2].ticket_link = req[p].upstream[2].ticket_link
    /\ Len(store) = req[p].rowsBefore

\* C12.  In the TypeScript source of fetchAndStoreTickets, a connection test
\* that fails ends the run: no ticket is looked up or inserted, the error is
\* thrown towards the route, which answers 500 without success, and the
\* table is as it was.
C12_ProbeFailureFatal ==
  [][\A p \in Procs :
       LET r == req[p]
           after == req'[p]
       IN /\ (r.pc = "probe" /\ after.storeFaults = r.storeFaults + 1) =>
               /\ after.pc = "finally"
               /\ after.thrown = "Database connection failed"
               /\ after.lookups = 0 /\ after.creates = 0
               /\ store' = store
          /\ (r.pc = "finally" /\ after # r /\ r.probes = 1
              /\ r.lookups = 0 /\ r.storeFaults = 1) =>
               /\ after.pc = "done"
               /\ after.status = 500 /\ ~after.success
               /\ after.lookups = 0 /\ after.creates = 0
               /\ store' = store
    ]_vars

C12_Witness ==
  \E p \in Procs :
    /\ req[p].route = "check" /\ req[p].pc = "done"
    /\ req[p].probes = 1 /\ req[p].storeFaults = 1
    /\ Len(req[p].tickets) = 2
    /\ req[p].lookups = 0 /\ req[p].creates = 0
    /\ req[p].status = 500

\* C13.  Claim: a process whose environment lacks the API key answers a
\* search request that has its six fields with 500, without success, having
\* called neither the upstream nor the store.
C13_Claim ==
  ~env.token =>
    /\ proc # "exited"
    /\ \A p \in Procs :
         (req[p].route = "search" /\ ~missingRequired(req[p].body)) =>
           /\ req[p].pc = "done"
           /\ req[p].status = 500 /\ ~req[p].success
           /\ req[p].netCalls = 0
           /\ req[p].lookups = 0 /\ req[p].creates = 0

\* C14.  A request that ended in a route's catch block, on an upstream or a
\* storage error, is answered 500 with a requestId; in production the
\* message is the one generic text whatever the error was, in any other mode
\* it is the error's own message.
C14_GenericInProduction ==
  \A p \in Procs :
    (req[p].pc = "done" /\ req[p].thrown # "") =>
      /\ req[p].status = 500
      /\ req[p].requestId
      /\ env.production => req[p].message = "An unexpected error occurred"
      /\ ~env.production => req[p].message = req[p].thrown

C14_Witness ==
  \E p \in Procs :
    /\ env.production
    /\ req[p].pc = "done" /\ req[p].status = 500
    /\ req[p].storeFaults = 1
    /\ req[p].thrown = "Can't reach database server"
    /\ req[p].message = "An unexpected error occurred"
    /\ req[p].requestId

\* The upstream answered the slot's request with an empty ticket list.
emptyAnswer(r) == r.envelope = "tickets" /\ r.upstream = <<>>

\* C15.  An empty ticket list from the upstream is no error: nothing is
\* thrown, no connection test, lookup or insert is made, and the request is
\* answered 200 with success; the search route returns an empty list and
\* counts of 0 new tickets and 0 duplicates.
C15_EmptyListIsSuccess ==
  \A p \in Procs :
    emptyAnswer(req[p]) =>
      /\ req[p].thrown = "" /\ req[p].errors = 0
      /\ req[p].probes = 0 /\ req[p].lookups = 0 /\ req[p].creates = 0
      /\ req[p].pc \in {"done", "finally"}
      /\ req[p].pc = "done" =>
           /\ req[p].status = 200 /\ req[p].success
           /\ req[p].route = "search" =>
                /\ req[p].hasStats
                /\ req[p].returned = <<>>
                /\ req[p].newTicketsCount = 0
                /\ req[p].duplicatesCount = 0

C15_Witness ==
  \E p \in Procs :
    /\ emptyAnswer(req[p])
    /\ req[p].route = "search"
    /\ req[p].pc = "done" /\ req[p].success /\ req[p].hasStats
    /\ req[p].netCalls = 1

\* The price check, too, meets an empty list and reports success.
C15_WitnessCheck ==
  \E p \in Procs :
    /\ emptyAnswer(req[p])
    /\ req[p].route = "check"
    /\ req[p].pc = "done" /\ req[p].success

\* C16.  The table only grows: whatever step the system takes (search, price
\* check, health check, shutdown), every row that was in the table is in it
\* afterwards, in its place and with all its columns as they were.
C16_StoreOnlyGrows ==
  [][/\ Len(store') >= Len(store)
     /\ \A n \in 1..Len(store) : store'[n] = store[n]
    ]_vars

C16_Witness ==
  /\ Len(store) >= 2
  /\ store[1].id = 1
  /\ \E n \in 2..Len(store) : sameSix(store[n], store[1])
  /\ proc = "exited"

\* C17.  Claim: a process has at most one Prisma client: none before the
\* first use, and the routes and fetchAndStoreTickets never hold one each.
C17_Claim ==
  /\ proc = "loading" => handles.api = "none" /\ handles.dist = "none"
  /\ ~(handles.api # "none" /\ handles.dist # "none")

\* C18.  Claim: a process that has exited has no client left connected, and
\* the shutdown has made none.
C18_Claim ==
  proc = "exited" => handles.api # "open" /\ handles.dist # "open"

\* A ticket list in ascending order of price.
ascending(tickets) ==
  \A i, j \in 1..Len(tickets) : i < j => tickets[i].value <= tickets[j].value

\* C19.  Claim: the tickets a successful search returns are sorted by
\* ascending price.
C19_Claim ==
  \A p \in Procs :
    searched(req[p]) =>
      /\ req[p].status = 200
      /\ req[p].query[1].sorting = "VALUE_ASC"
      /\ ascending(req[p].returned)

\* The flight number of the first leg of segment n of a ticket whose
\* segments can be read, or the placeholder when the segment, the leg or the
\* number is missing.
numberOrUnknown(ticket, n) ==
  LET segments == ticket.segments[1] IN
  IF /\ Len(segments) >= n
     /\ segments[n].flight_legs[1] # <<>>
     /\ segments[n].flight_legs[1][1].flight_number # <<>>
  THEN segments[n].flight_legs[1][1].flight_number
  ELSE Unknown

\* The first two characters of a string.
firstTwo(str) == IF Len(str) <= 2 THEN str ELSE <<str[1], str[2]>>

\* C20.  Every row inserted has as outboundFlight and returnFlight the
\* flight number of the ticket's leg, or "Unknown" when the leg or its
\* number is missing, never an empty value, and as airlines the first two
\* characters of those strings; and the placeholder is compared like any
\* flight number: a ticket without a return leg whose lookup meets a row
\* with returnFlight "Unknown" and its other five key columns is counted a
\* duplicate and not inserted.
C20_UnknownPlaceholder ==
  [][\A p \in Procs :
       LET r == req[p]
           after == req'[p]
       IN /\ (r.pc = "create" /\ Len(store') = Len(store) + 1) =>
               LET row == store'[Len(store')]
                   ticket == current(r)
               IN /\ row.outboundFlight = numberOrUnknown(ticket, 1)
                  /\ row.returnFlight = numberOrUnknown(ticket, 2)
                  /\ row.outboundFlight # <<>> /\ row.returnFlight # <<>>
                  /\ row.outboundAirline = firstTwo(row.outboundFlight)
                  /\ row.returnAirline = firstTwo(row.returnFlight)
                  /\ row.returnFlight = Unknown =>
                       row.returnAirline = <<"U", "n">>
          /\ (/\ r.pc = "find" /\ after # r
              /\ after.storeFaults = r.storeFaults
              /\ numberOrUnknown(current(r), 2) = Unknown
              /\ \E n \in 1..Len(store) :
                   /\ store[n].returnFlight = Unknown
                   /\ store[n].departureAt = current(r).departure_at
                   /\ store[n].returnAt = current(r).return_at
                   /\ store[n].outboundFlight = numberOrUnknown(current(r), 1)
                   /\ store[n].origin = sixOf(current(r)).origin
                   /\ store[n].destination = sixOf(current(r)).destination) =>
                /\ after.duplicatesCount = r.duplicatesCount + 1
                /\ ~(after.pc = "create" /\ after.idx = r.idx)
                /\ store' = store
    ]_vars

C20_Witness ==
  \E p \in Procs :
    /\ loopDone(req[p]) /\ req[p].errors = 0 /\ req[p].rowsBefore = 0
    /\ req[p].tickets = <<fixLink(ticketOneWay), fixLink(ticketOneWay)>>
    /\ req[p].newTicketsCount = 1 /\ req[p].duplicatesCount = 1
    /\ Len(store) = 1
    /\ store[1].returnFlight = Unknown
    /\ store[1].returnAirline = <<"U", "n">>
    /\ store[1].outboundAirline = <<"A", "C">>

\* C21.  Claim: fetchAndStoreTickets writes no ticket whose key has a row
\* already: the table never holds two rows of one key, and a run repeated on
\* the answer of the run before it, no ticket having raised an error in
\* either, leaves the table as long as it found it.
C21_Claim ==
  /\ UniqueKeys(store)
  /\ \A p \in Procs :
       (/\ req[p].route \in {"check", "cli"}
        /\ req[p].pc = "done" /\ req[p].resubmits /\ req[p].idx > 0
        /\ req[p].prevErrors = 0 /\ req[p].errors = 0) =>
         /\ Len(store) = req[p].rowsBefore
         /\ req[p].newTicketsCount = 0

\* C22.  A process started without the API token serves no price check: it
\* never gets to run, no price-check request is ever taken up, none makes an
\* upstream call and none is answered with success.
C22_NoTokenNoPriceCheck ==
  ~env.token =>
    /\ proc \in {"loading", "exited"}
    /\ \A p \in Procs :
         /\ req[p].route # "check"
         /\ req[p].netCalls = 0
         /\ ~req[p].success

C22_Witness ==
  /\ ~env.token
  /\ proc = "exited"
  /\ \A p \in Procs : req[p].pc = "idle"

\* C23.  Within one request or run the store comes after the upstream: a
\* connection test, a lookup or an insert is issued only once the upstream's
\* answer is there and has all three levels of the envelope, after exactly
\* one upstream call; and the steps up to there (query, post, envelope
\* checks) leave the table as it is.
C23_UpstreamBeforeStore ==
  [][\A p \in Procs :
       LET r == req[p]
           after == req'[p]
       IN /\ (after.probes > 0 \/ after.lookups > 0 \/ after.creates > 0) =>
               /\ after.envelope = "tickets"
               /\ after.netCalls = 1
          /\ (r.pc \in {"idle", "done", "import", "upstream"} /\ after # r) =>
               store' = store
          /\ after.envelope \in {"rejected", "no body", "no data",
                                 "no prices_round_trip"} =>
               after.lookups = 0 /\ after.creates = 0
    ]_vars

C23_Witness ==
  \E p \in Procs :
    /\ req[p].route = "search" /\ req[p].pc = "done"
    /\ req[p].envelope = "tickets"
    /\ req[p].netCalls = 1
    /\ req[p].lookups = 2 /\ req[p].creates = 2
    /\ Len(store) = req[p].rowsBefore + 2

\* C24.  Claim: no run of fetchAndStoreTickets has a connection test, a
\* lookup or an insert under way on the module's client once the finally
\* block of a run has disconnected that client.
C24_Claim ==
  handles.dist = "closed" =>
    \A p \in Procs :
      ~(req[p].route = "check" /\ req[p].pc \in {"probe", "find", "create"})

\* C25.  Claim: when a store step ends, every ticket of the list has come to
\* exactly one of three ends, new, duplicate or failed: the two counters and
\* the number of tickets that raised an error add up to the length of the
\* list, and the errors a store call raised are among those counted failed.
C25_Claim ==
  \A p \in Procs :
    (req[p].pc = "done" /\ req[p].idx > 0) =>
      /\ req[p].newTicketsCount + req[p].duplicatesCount + req[p].errors =
           Len(req[p].tickets)
      /\ req[p].newTicketsCount + req[p].duplicatesCount <=
           Len(req[p].tickets)
      /\ req[p].storeFaults <= req[p].errors

\* C26.  The count of new records is the number of rows added: with no
\* other writer at work, at every moment of a store step and at its end the
\* table has grown since the step began by exactly newTicketsCount rows,
\* the number the search response reports as dbStats.newTickets.
C26_NewCountIsRowsAdded ==
  \A p \in Procs :
    req[p].idx > 0 =>
      /\ Len(store) - req[p].rowsBefore = req[p].newTicketsCount
      /\ \A n \in (req[p].rowsBefore + 1)..Len(store) :
           \E i \in 1..Len(req[p].tickets) :
             /\ sameSix(store[n], sixOf(req[p].tickets[i]))
             /\ store[n].price = req[p].tickets[i].value

C26_Witness ==
  \E p \in Procs :
    /\ req[p].route = "search" /\ req[p].pc = "done" /\ req[p].hasStats
    /\ req[p].rowsBefore = 1
    /\ Len(req[p].tickets) = 2
    /\ req[p].storeFaults = 1
    /\ req[p].newTicketsCount = 1
    /\ Len(store) = 2

\* A search request that has been answered, and the answer's shape: 400 for
\* a missing field before any call, 500 with no ticket list, 200 with the
\* list and the counters.
answered(r) ==
  /\ r.pc = "done"
  /\ r.status \in {400, 500, 200}
  /\ r.status = 400 => (missingRequired(r.body) /\ ~r.success /\ r.netCalls = 0)
  /\ r.status = 500 => (~r.success /\ ~r.hasStats /\ r.returned = <<>>)
  /\ r.status = 200 => (/\ r.success /\ r.hasStats /\ r.netCalls = 1
                        /\ r.returned = r.tickets /\ r.envelope = "tickets")

\* C27.  Every search request whose awaited calls all settle gets exactly
\* one response, 400, 500 or 200 with tickets and dbStats: a handler at work
\* has sent nothing yet, once it has sent a response it does nothing more
\* (the slot changes only when the next request arrives), and a request at
\* work is answered in the end unless the process exits first.
C27_ExactlyOneResponse ==
  /\ [](\A p \in Procs : req[p].route = "search" =>
          IF req[p].pc = "done" THEN answered(req[p]) ELSE req[p].status = 0)
  /\ [][\A p \in Procs :
          (req[p].route = "search" /\ req[p].status # 0
           /\ started' = started) => req'[p] = req[p]]_vars
  /\ ((req[1].route = "search" /\ req[1].pc # "done")
        ~> (answered(req[1]) \/ proc = "exited"))

C27_Witness ==
  \E p \in Procs :
    /\ req[p].route = "search" /\ answered(req[p])
    /\ req[p].status = 200
    /\ Len(req[p].tickets) = 2
    /\ req[p].errors = 2 /\ req[p].storeFaults = 2
    /\ req[p].lookups = 2 /\ req[p].creates = 1

\* C28.  Claim: in every search request that reaches the upstream call the
\* paging limit of the query is a whole number of at least 1, which is 5
\* when the caller gave no limit, one that is no number, or 0; and the
\* currency is "cad" when the caller gave none.
C28_Claim ==
  \A p \in Procs :
    (req[p].route = "search" /\ req[p].query # <<>>) =>
      LET q == req[p].query[1]
          given == optionOf(req[p].body, "limit")
      IN /\ q.limit \in Nat /\ q.limit >= 1
         /\ (given.type = "undefined" \/ parseInt(given).nan
             \/ parseInt(given).n = 0) => q.limit = 5
         /\ optionOf(req[p].body, "currency").type = "undefined" =>
              q.currency = cad

\* C29.  Link completion in the search route: in the list worked on and
\* returned every link that is not empty starts with "http"; a link the
\* upstream sent with "http" in front, and an empty one, is as it was sent;
\* completing the list once more changes nothing; and every row the request
\* has inserted carries the completed link of the ticket it was made from.
C29_LinkNormalisation ==
  \A p \in Procs :
    (req[p].route = "search" /\ req[p].envelope = "tickets") =>
      LET r == req[p] IN
      /\ Len(r.tickets) = Len(r.upstream)
      /\ \A i \in 1..Len(r.tickets) :
           /\ r.tickets[i].ticket_link # <<>> =>
                startsWith(r.tickets[i].ticket_link, http)
           /\ (r.upstream[i].ticket_link = <<>>
               \/ startsWith(r.upstream[i].ticket_link, http)) =>
                r.tickets[i] = r.upstream[i]
      /\ fixLinks(r.tickets) = r.tickets
      /\ r.pc = "done" => r.returned = r.tickets
      /\ \A n \in (r.rowsBefore + 1)..Len(store) :
           \E i \in 1..Len(r.tickets) :
             /\ sameSix(store[n], sixOf(r.tickets[i]))
             /\ store[n].ticketLink = r.tickets[i].ticket_link
             /\ startsWith(store[n].ticketLink, http)

C29_Witness ==
  \E p \in Procs :
    /\ req[p].route = "search" /\ req[p].pc = "done" /\ req[p].status = 200
    /\ req[p].upstream = <<ticketA, ticketOneWay>>
    /\ req[p].newTicketsCount = 2
    /\ Len(store) = 2
    /\ store[1].ticketLink = searchPrefix \o ticketA.ticket_link
    /\ store[2].ticketLink = ticketOneWay.ticket_link

C29_WitnessEmpty ==
  \E p \in Procs :
    /\ req[p].route = "search" /\ req[p].pc = "done" /\ req[p].status = 200
    /\ Len(req[p].returned) = 2
    /\ req[p].returned[1].ticket_link = <<>>
    /\ req[p].returned[2].ticket_link = searchPrefix \o ticketA.ticket_link

====
